---- MODULE Spec2Model ----
(***************************************************************************)
(* Chat route of the deep-search application.                              *)
(*                                                                         *)
(* Two versions of the POST handler are modelled:                          *)
(*   - the day-1 handler (app/api/chat/route.ts): POST, execute, the       *)
(*     streamText loop with the searchWeb tool, onFinish (delete, insert); *)
(*   - the later handler with scrapePages, the Redis cache and the 400 and *)
(*     404 answers (unnamed/part_002): the definitions whose names end in  *)
(*     V2.                                                                 *)
(* Spec is the day-1 handler, SpecV2 the later one.                        *)
(***************************************************************************)
EXTENDS Integers, Sequences, FiniteSets, TLC

(***************************************************************************)
(* Bounds and program constants                                            *)
(***************************************************************************)
\* longest message text a client sends (one more than the title cut)
MaxContentLen == 41
\* the model never wants more tool calls than this before it answers
MaxWanted == 11
\* most URLs the model passes to one scrapePages call
MaxUrls == 2
\* most tool calls the model makes in one turn of the later handler
MaxToolsV2 == 3
\* route.ts:65  maxSteps: 10
maxSteps == 10
\* route.ts:43  content.slice(0, 40)
TitleCut == 40
\* part_002:63  content.slice(0, 50)
TitleCutV2 == 50

Reqs == {"r1", "r2"}
Users == {"u1", "u2"}
NoSession == "<none>"
Undefined == "<undefined>"

\* JavaScript truthiness of an optional string (!chat_id, msg.id || ...)
Truthy(s) == s \notin {Undefined, ""}

Text(n) == [i \in 1..n |-> "x"]
NewChatTitle == <<"N", "e", "w", " ", "C", "h", "a", "t">>
Dots == <<".", ".", ".">>

Min(a, b) == IF a < b THEN a ELSE b

\* String.prototype.slice(0, n)
Slice(s, n) == SubSeq(s, 1, Min(n, Len(s)))

(***************************************************************************)
(* Messages a client can send.  A UI message has an id (possibly missing), *)
(* a role, a text content and its parts.                                   *)
(***************************************************************************)
Msg(id, role, content, parts) ==
    [id |-> id, role |-> role, content |-> content, parts |-> parts]

\* a message part: a text segment or a tool invocation in state call or
\* result; by names who produced it (the client, or the turn of a request)
Part(type, state, by) == [type |-> type, state |-> state, by |-> by]

ClientText == <<Part("text", "", "client")>>

UserShort == Msg("m1", "user", Text(3), ClientText)
UserLong  == Msg("m2", "user", Text(MaxContentLen), ClientText)
UserNoId  == Msg("", "user", Text(0), <<>>)
AsstOld   == Msg("m3", "assistant", Text(2), ClientText)

IncomingChoices ==
    { <<>>, <<UserShort>>, <<UserNoId>>, <<UserLong, AsstOld>> }

ChatIdChoices == {Undefined, "", "c1", "c2", "c9"}

(***************************************************************************)
(* The relational store: chat rows and message rows.                       *)
(***************************************************************************)
ChatRow(id, userId, title) == [id |-> id, userId |-> userId, title |-> title]

MessageRow(id, chatId, role, parts, order) ==
    [id |-> id, chatId |-> chatId, role |-> role, parts |-> parts, order |-> order]

InitChats == { ChatRow("c1", "u1", Text(2)), ChatRow("c2", "u2", Text(2)) }

InitMessages ==
    << MessageRow("o1", "c1", "user", ClientText, 0),
       MessageRow("o2", "c1", "assistant", ClientText, 1),
       MessageRow("o3", "c2", "user", ClientText, 0) >>

\* nanoid(): the k-th identifier handed out; never equal to an earlier one
nanoid(k) == "n" \o ToString(k)

\* chat-helpers.ts upsertChat: insert, or on conflict on id update the title
upsertChat(cs, chat) ==
    IF \E c \in cs : c.id = chat.id
    THEN { IF c.id = chat.id THEN [c EXCEPT !.title = chat.title] ELSE c : c \in cs }
    ELSE cs \cup {chat}

\* a title that takes the whole first message
TitleOfUncut(msgs) ==
    IF Len(msgs) = 0 THEN NewChatTitle
    ELSE IF msgs[1].content = <<>> THEN NewChatTitle ELSE msgs[1].content

\* route.ts:43  incomingMessages[0]?.content?.slice(0, 40) || "New Chat"
TitleOf(msgs) ==
    IF Len(msgs) = 0 THEN NewChatTitle
    ELSE IF Slice(msgs[1].content, TitleCut) = <<>> THEN NewChatTitle
         ELSE Slice(msgs[1].content, TitleCut)

\* a delete that removes nothing
DeleteNothing(tbl, cid) == tbl

\* route.ts:92-94  db.delete(messagesTable).where(eq(messagesTable.chatId, chat_id))
DeleteMessages(tbl, cid) == SelectSeq(tbl, LAMBDA row : row.chatId # cid)

RECURSIVE MinOrderIndex(_, _, _)
\* index of the first row of least order among rows i..Len(rows)
MinOrderIndex(rows, i, best) ==
    IF i > Len(rows) THEN best
    ELSE MinOrderIndex(rows, i + 1,
                       IF rows[i].order < rows[best].order THEN i ELSE best)

RemoveAt(s, i) == SubSeq(s, 1, i - 1) \o SubSeq(s, i + 1, Len(s))

RECURSIVE SortByOrder(_)
\* orderBy asc(m.order)
SortByOrder(rows) ==
    IF rows = <<>> THEN <<>>
    ELSE LET i == MinOrderIndex(rows, 1, 1)
         IN  <<rows[i]>> \o SortByOrder(RemoveAt(rows, i))

\* the rows of one chat in ascending order, as getChat reads them
ChatMessages(tbl, cid) == SortByOrder(SelectSeq(tbl, LAMBDA row : row.chatId = cid))

\* chat-helpers.ts getChat: the chat of that user with its messages in
\* ascending order; <<>> stands for null
getChat(cs, tbl, chatId, userId) ==
    IF \E c \in cs : c.id = chatId /\ c.userId = userId
    THEN << [chat |-> CHOOSE c \in cs : c.id = chatId /\ c.userId = userId,
             messages |-> ChatMessages(tbl, chatId)] >>
    ELSE <<>>

(***************************************************************************)
(* Response messages of streamText and their merge into the UI messages.   *)
(***************************************************************************)
ResponseMsg(id, role, kind, by) ==
    [id |-> id, role |-> role, kind |-> kind, by |-> by]

Last(s) == s[Len(s)]

\* the parts an assistant response message contributes to a UI message
PartsOf(rm) ==
    IF rm.kind = "tool-call" THEN <<Part("tool-invocation", "call", rm.by)>>
    ELSE <<Part("text", "", rm.by)>>

RECURSIVE CompleteLastCall(_)
\* the tool result is stored on the latest pending tool invocation
CompleteLastCall(parts) ==
    IF parts = <<>> THEN <<>>
    ELSE IF Last(parts).type = "tool-invocation" /\ Last(parts).state = "call"
         THEN SubSeq(parts, 1, Len(parts) - 1) \o <<[Last(parts) EXCEPT !.state = "result"]>>
         ELSE CompleteLastCall(SubSeq(parts, 1, Len(parts) - 1)) \o <<Last(parts)>>

\* one response message folded into the message list
AppendOne(msgs, rm) ==
    IF rm.role = "assistant"
    THEN IF msgs # <<>> /\ Last(msgs).role = "assistant"
         THEN [msgs EXCEPT ![Len(msgs)].parts = @ \o PartsOf(rm)]
         ELSE Append(msgs, Msg(rm.id, "assistant",
                               IF rm.kind = "text" THEN Text(1) ELSE Text(0),
                               PartsOf(rm)))
    ELSE [msgs EXCEPT ![Len(msgs)].parts = CompleteLastCall(@)]

RECURSIVE appendResponseMessages(_, _)
\* ai: appendResponseMessages({ messages, responseMessages }): the response
\* messages are folded in one after the other (m and t name the list so far
\* and the messages left, each computed once)
appendResponseMessages(msgs, resp) ==
    IF resp = <<>> THEN msgs
    ELSE CHOOSE out \in { appendResponseMessages(m, t) :
                            m \in {AppendOne(msgs, resp[1])}, t \in {Tail(resp)} } : TRUE

\* number of messages among the first i that have no id of their own
MissingIds(msgs, i) == Cardinality({ j \in 1..i : ~Truthy(msgs[j].id) })

\* route.ts:96-103  updatedMessages.map((msg, i) => ({ id: msg.id || nanoid(),
\*                  chatId, role, parts, order: i }))
Rows(msgs, cid, used) ==
    [ i \in 1..Len(msgs) |->
        MessageRow(IF Truthy(msgs[i].id) THEN msgs[i].id
                   ELSE nanoid(used + MissingIds(msgs, i)),
                   cid, msgs[i].role, msgs[i].parts, i - 1) ]

\* a faulty insert: positions continue after the rows the chat already has
InsertRowsAppending(tbl, rows) ==
    tbl \o [ i \in 1..Len(rows) |->
               [rows[i] EXCEPT !.order =
                   @ + Len(SelectSeq(tbl, LAMBDA x : x.chatId = rows[i].chatId))] ]

\* route.ts:95  db.insert(messagesTable).values(rows)
InsertRows(tbl, rows) == tbl \o rows

(***************************************************************************)
(* What the model and the search provider do in one turn.                  *)
(*   wants       tool calls the model makes before it answers              *)
(*   searchFails the search provider rejects the call                      *)
(*   modelFails  the model provider fails on its first call                *)
(***************************************************************************)
Scenario(w, sf, mf) == [wants |-> w, searchFails |-> sf, modelFails |-> mf]

Scenarios ==
    { Scenario(0, FALSE, FALSE), Scenario(1, FALSE, FALSE),
      Scenario(1, TRUE, FALSE), Scenario(MaxWanted, FALSE, FALSE),
      Scenario(0, FALSE, TRUE) }

NoScenario == Scenario(0, FALSE, FALSE)

\* route.ts:71-81  searchWeb.execute: awaits searchSerper and maps the
\* organic results; there is no catch, a rejection of searchSerper leaves
\* execute as a thrown error
searchWebExecute(providerFails) ==
    IF providerFails THEN [threw |-> TRUE, result |-> "none"]
    ELSE [threw |-> FALSE, result |-> "organic"]

Event(type, cid) == [type |-> type, chatId |-> cid]

(***************************************************************************)
(* Scraping: URL lists, crawl results, the cache                           *)
(***************************************************************************)
UrlPool == <<"a", "b", "c", "d">>

\* the URL lists the model passes to scrapePages
UrlLists == { SubSeq(UrlPool, 1, n) : n \in 1..MaxUrls }

NoValue == [none |-> TRUE]
NoCall == [toolName |-> "none", urls |-> <<>>]

\* scraper bulkCrawlWebsites({ urls }): one result per URL, in order, each
\* { success: true, data } or { success: false, error }; success says that
\* all of them succeeded, error is set otherwise.  ok[i] is what the site
\* of the i-th URL does
bulkCrawlWebsites(urls, ok) ==
    [ success |-> \A i \in 1..Len(urls) : ok[i],
      results |-> [ i \in 1..Len(urls) |->
                     [ url |-> urls[i],
                       result |-> IF ok[i]
                                  THEN [success |-> TRUE, data |-> "page:" \o urls[i],
                                        error |-> Undefined]
                                  ELSE [success |-> FALSE, data |-> Undefined,
                                        error |-> "failed:" \o urls[i]] ] ],
      error |-> IF \A i \in 1..Len(urls) : ok[i] THEN Undefined
                ELSE "Failed to crawl some websites" ]

\* redis cacheWithRedis(keyPrefix, fn)(args): the value stored under the key
\* of these arguments if there is one, else the value fn computes, which is
\* then stored.  computed is the value fn would return; fetched says
\* whether fn was called
cacheWithRedis(c, key, computed) ==
    IF c[key] # NoValue
    THEN [value |-> c[key], fetched |-> FALSE, cache |-> c]
    ELSE [value |-> computed, fetched |-> TRUE,
          cache |-> [c EXCEPT ![key] = computed]]

\* a scrapePages that goes to the scraper every time
cachedScrapePagesUncached(c, urls, ok) ==
    [value |-> bulkCrawlWebsites(urls, ok), fetched |-> TRUE, cache |-> c]

\* part_002:23-28  cachedScrapePages = cacheWithRedis("scrapePages",
\*                   async (urls) => bulkCrawlWebsites({ urls }))
cachedScrapePages(c, urls, ok) ==
    cacheWithRedis(c, urls, bulkCrawlWebsites(urls, ok))

\* a formatting with the two conditions the wrong way round
formatCrawlResultInverted(r) ==
    [ url |-> r.url,
      success |-> r.result.success,
      content |-> IF r.result.success THEN Undefined ELSE r.result.data,
      error |-> IF r.result.success THEN r.result.error ELSE Undefined ]

\* part_002:31-36  formatCrawlResult
formatCrawlResult(r) ==
    [ url |-> r.url,
      success |-> r.result.success,
      content |-> IF r.result.success THEN r.result.data ELSE Undefined,
      error |-> IF r.result.success THEN Undefined ELSE r.result.error ]

Map(f(_), s) == [ i \in 1..Len(s) |-> f(s[i]) ]

IsFailed(r) == ~r.result.success
IsSuccessful(r) == r.result.success
UrlOf(r) == r.url

\* part_002:156-184  scrapePages.execute, given what cachedScrapePages
\* returned; summary is kept as the two numbers it prints
scrapePagesExecute(result) ==
    IF result.success
    THEN [ success |-> TRUE,
           results |-> Map(formatCrawlResult, result.results),
           summary |-> <<Len(result.results), Len(result.results)>> ]
    ELSE [ success |-> FALSE,
           results |-> Map(formatCrawlResult, result.results),
           summary |-> <<Len(SelectSeq(result.results, IsSuccessful)),
                         Len(result.results)>>,
           error |-> result.error,
           failedUrls |-> Map(UrlOf, SelectSeq(result.results, IsFailed)) ]

(***************************************************************************)
(* State                                                                   *)
(***************************************************************************)
VARIABLES
    chats,            \* chat rows
    messagesTable,    \* message rows, in insertion order
    nanoCount,        \* identifiers handed out by nanoid()
    pc,               \* position of each request
    session,          \* auth() of each request
    body,             \* request body: messages, chatId
    chat_id,          \* route.ts:35
    isNewChat,        \* route.ts:36
    status,           \* HTTP status of the response, 0 before there is one
    dataStream,       \* events written to the response stream
    scenario,         \* behaviour of model and providers in this turn
    stepCount,        \* model calls made by streamText
    responseMessages, \* response.messages
    toolFailed,       \* the provider behind a tool call raised an error
    dbWrites,         \* writes this request made to the store
    persisted,        \* times the persistence of onFinish ran to its end
    overlapped,       \* requests that shared their chat with a running turn
    cache,            \* the key-value cache: key -> cached value
    fetchCount,       \* calls of bulkCrawlWebsites per URL list
    evictions,        \* entries the cache service dropped, per URL list
    pendingCall,      \* the tool call the model asked for in this step
    lastCrawl,        \* what cachedScrapePages gave the last scrapePages call
    toolResult        \* what the last scrapePages call returned to the model

vars == << chats, messagesTable, nanoCount, pc, session, body, chat_id,
           isNewChat, status, dataStream, scenario, stepCount,
           responseMessages, toolFailed, dbWrites, persisted, overlapped,
           cache, fetchCount, evictions, pendingCall, lastCrawl, toolResult >>

cacheVars == << cache, fetchCount, evictions >>
toolVars == << pendingCall, lastCrawl, toolResult >>

reqVars == << session, body, chat_id, isNewChat, status >>
turnVars == << scenario, stepCount, responseMessages, toolFailed >>

Callers == {NoSession, "u1"}

Active(p) == p \in {"execute", "stream", "tool", "onFinish", "insert"}

\* requests whose turn runs while another turn runs on the same chat
Overlap(p, c) ==
    { r \in Reqs : Active(p[r]) /\
        \E o \in Reqs \ {r} : Active(p[o]) /\ c[o] = c[r] }

Init ==
    /\ chats = InitChats
    /\ messagesTable = InitMessages
    /\ nanoCount = 0
    /\ pc = [r \in Reqs |-> "idle"]
    /\ session = [r \in Reqs |-> NoSession]
    /\ body = [r \in Reqs |-> [messages |-> <<>>, chatId |-> Undefined]]
    /\ chat_id = [r \in Reqs |-> Undefined]
    /\ isNewChat = [r \in Reqs |-> FALSE]
    /\ status = [r \in Reqs |-> 0]
    /\ dataStream = [r \in Reqs |-> <<>>]
    /\ scenario = [r \in Reqs |-> NoScenario]
    /\ stepCount = [r \in Reqs |-> 0]
    /\ responseMessages = [r \in Reqs |-> <<>>]
    /\ toolFailed = [r \in Reqs |-> FALSE]
    /\ dbWrites = [r \in Reqs |-> 0]
    /\ persisted = [r \in Reqs |-> 0]
    /\ overlapped = {}
    /\ cache = [k \in UrlLists |-> NoValue]
    /\ fetchCount = [k \in UrlLists |-> 0]
    /\ evictions = [k \in UrlLists |-> 0]
    /\ pendingCall = [r \in Reqs |-> NoCall]
    /\ lastCrawl = [r \in Reqs |-> NoValue]
    /\ toolResult = [r \in Reqs |-> NoValue]

(***************************************************************************)
(* route.ts:20-49  POST, up to the return of the streamed response         *)
(***************************************************************************)
\* a handler that lets everybody in
NeverUnauthorized(s) == FALSE

\* route.ts:22  if (!session)
Unauthorized(s) == s = NoSession

\* route.ts:37  if (!chat_id)
CreatesChat(cid) == ~Truthy(cid)

POST(r) ==
    /\ pc[r] = "idle"
    /\ \E s \in Callers, msgs \in IncomingChoices, cid \in ChatIdChoices :
        /\ session' = [session EXCEPT ![r] = s]
        /\ body' = [body EXCEPT ![r] = [messages |-> msgs, chatId |-> cid]]
        /\ IF Unauthorized(s)
           THEN /\ status' = [status EXCEPT ![r] = 401]
                /\ pc' = [pc EXCEPT ![r] = "rejected"]
                /\ UNCHANGED << chats, nanoCount, chat_id, isNewChat, dbWrites >>
           ELSE /\ status' = [status EXCEPT ![r] = 200]
                /\ pc' = [pc EXCEPT ![r] = "execute"]
                /\ IF CreatesChat(cid)
                   THEN /\ nanoCount' = nanoCount + 1
                        /\ chat_id' = [chat_id EXCEPT ![r] = nanoid(nanoCount + 1)]
                        /\ isNewChat' = [isNewChat EXCEPT ![r] = TRUE]
                        /\ chats' = upsertChat(chats,
                                       ChatRow(nanoid(nanoCount + 1), s, TitleOf(msgs)))
                        /\ dbWrites' = [dbWrites EXCEPT ![r] = @ + 1]
                   ELSE /\ chat_id' = [chat_id EXCEPT ![r] = cid]
                        /\ UNCHANGED << chats, nanoCount, isNewChat, dbWrites >>
    /\ overlapped' = overlapped \cup Overlap(pc', chat_id')
    /\ UNCHANGED << messagesTable, dataStream, turnVars, persisted >>
    /\ UNCHANGED << cacheVars, toolVars >>

(***************************************************************************)
(* route.ts:50-109  execute: the sideband event, then streamText starts    *)
(***************************************************************************)
Execute(r) ==
    /\ pc[r] = "execute"
    /\ LET announced == IF isNewChat[r] /\ Truthy(chat_id[r])
                        THEN <<Event("NEW_CHAT_CREATED", chat_id[r])>>
                        ELSE <<>>
       IN  IF body[r].messages = <<>>
           THEN \* streamText rejects an empty prompt: onError, stream ends
                /\ dataStream' = [dataStream EXCEPT ![r] = announced \o <<Event("error", "")>>]
                /\ pc' = [pc EXCEPT ![r] = "failed"]
                /\ UNCHANGED scenario
           ELSE /\ dataStream' = [dataStream EXCEPT ![r] = announced]
                /\ pc' = [pc EXCEPT ![r] = "stream"]
                /\ \E sc \in Scenarios : scenario' = [scenario EXCEPT ![r] = sc]
    /\ overlapped' = overlapped \cup Overlap(pc', chat_id)
    /\ UNCHANGED << chats, messagesTable, nanoCount, reqVars, stepCount,
                    responseMessages, toolFailed, dbWrites, persisted >>
    /\ UNCHANGED << cacheVars, toolVars >>

(***************************************************************************)
(* route.ts:61-83  the streamText loop                                     *)
(***************************************************************************)
\* a loop without step budget
ContinuesWithoutBudget(steps, threw) == ~threw

\* ai streamText: after a step it calls the model again only if every tool
\* call of the step has its result and the step budget is not used up
ContinuesAfterTool(steps, threw) == ~threw /\ steps < maxSteps

\* the model is called: it asks for a tool or gives its final answer
ModelStep(r) ==
    /\ pc[r] = "stream"
    /\ ~(scenario[r].modelFails /\ stepCount[r] = 0)
    /\ stepCount[r] < maxSteps
    /\ stepCount' = [stepCount EXCEPT ![r] = @ + 1]
    /\ LET id == r \o "s" \o ToString(stepCount[r] + 1)
       IN  IF stepCount[r] < scenario[r].wants
           THEN /\ responseMessages' = [responseMessages EXCEPT ![r] =
                       Append(@, ResponseMsg(id, "assistant", "tool-call", r))]
                /\ dataStream' = [dataStream EXCEPT ![r] = Append(@, Event("tool-call", ""))]
                /\ pc' = [pc EXCEPT ![r] = "tool"]
           ELSE /\ responseMessages' = [responseMessages EXCEPT ![r] =
                       Append(@, ResponseMsg(id, "assistant", "text", r))]
                /\ dataStream' = [dataStream EXCEPT ![r] = Append(@, Event("text", ""))]
                /\ pc' = [pc EXCEPT ![r] = "onFinish"]
    /\ overlapped' = overlapped \cup Overlap(pc', chat_id)
    /\ UNCHANGED << chats, messagesTable, nanoCount, reqVars, scenario,
                    toolFailed, dbWrites, persisted >>
    /\ UNCHANGED << cacheVars, toolVars >>

\* the model provider fails: route.ts:111-114 onError writes the error
\* event, the stream ends and onFinish is not called
ModelError(r) ==
    /\ pc[r] = "stream"
    /\ scenario[r].modelFails /\ stepCount[r] = 0
    /\ stepCount' = [stepCount EXCEPT ![r] = @ + 1]
    /\ dataStream' = [dataStream EXCEPT ![r] = Append(@, Event("error", ""))]
    /\ pc' = [pc EXCEPT ![r] = "failed"]
    /\ overlapped' = overlapped \cup Overlap(pc', chat_id)
    /\ UNCHANGED << chats, messagesTable, nanoCount, reqVars, scenario,
                    responseMessages, toolFailed, dbWrites, persisted >>
    /\ UNCHANGED << cacheVars, toolVars >>

\* route.ts:67-82  the searchWeb tool call of the current step
SearchWeb(r) ==
    /\ pc[r] = "tool"
    /\ LET out == searchWebExecute(scenario[r].searchFails)
       IN  /\ toolFailed' = [toolFailed EXCEPT ![r] = @ \/ scenario[r].searchFails]
           /\ IF out.threw
              THEN \* the error part of the stream goes through onError
                   /\ dataStream' = [dataStream EXCEPT ![r] = Append(@, Event("error", ""))]
                   /\ UNCHANGED responseMessages
              ELSE /\ dataStream' = [dataStream EXCEPT ![r] = Append(@, Event("tool-result", ""))]
                   /\ responseMessages' = [responseMessages EXCEPT ![r] =
                          Append(@, ResponseMsg("", "tool", "tool-result", r))]
           /\ pc' = [pc EXCEPT ![r] =
                        IF ContinuesAfterTool(stepCount[r], out.threw)
                        THEN "stream" ELSE "onFinish"]
    /\ overlapped' = overlapped \cup Overlap(pc', chat_id)
    /\ UNCHANGED << chats, messagesTable, nanoCount, reqVars, scenario,
                    stepCount, dbWrites, persisted >>
    /\ UNCHANGED << cacheVars, toolVars >>

(***************************************************************************)
(* route.ts:84-104  onFinish: delete the chat's rows, then insert the      *)
(* merged list; the two statements are awaited one after the other         *)
(***************************************************************************)
\* route.ts:86-89
updatedMessages(r) == appendResponseMessages(body[r].messages, responseMessages[r])

OnFinishDelete(r) ==
    /\ pc[r] = "onFinish"
    /\ messagesTable' = DeleteMessages(messagesTable, chat_id[r])
    /\ dbWrites' = [dbWrites EXCEPT ![r] = @ + 1]
    /\ pc' = [pc EXCEPT ![r] = "insert"]
    /\ overlapped' = overlapped \cup Overlap(pc', chat_id)
    /\ UNCHANGED << chats, nanoCount, reqVars, dataStream, turnVars, persisted >>
    /\ UNCHANGED << cacheVars, toolVars >>

OnFinishInsert(r) ==
    /\ pc[r] = "insert"
    /\ messagesTable' = InsertRows(messagesTable,
                                   Rows(updatedMessages(r), chat_id[r], nanoCount))
    /\ nanoCount' = nanoCount + MissingIds(updatedMessages(r), Len(updatedMessages(r)))
    /\ dbWrites' = [dbWrites EXCEPT ![r] = @ + 1]
    /\ persisted' = [persisted EXCEPT ![r] = @ + 1]
    /\ pc' = [pc EXCEPT ![r] = "done"]
    /\ overlapped' = overlapped \cup Overlap(pc', chat_id)
    /\ UNCHANGED << chats, reqVars, dataStream, turnVars >>
    /\ UNCHANGED << cacheVars, toolVars >>

Next ==
    \E r \in Reqs :
        \/ POST(r)
        \/ Execute(r)
        \/ ModelStep(r)
        \/ ModelError(r)
        \/ SearchWeb(r)
        \/ OnFinishDelete(r)
        \/ OnFinishInsert(r)

Spec == Init /\ [][Next]_vars

(***************************************************************************)
(* The later handler (unnamed/part_002): 400 and 404 answers, scrapePages  *)
(* behind the cache, persistence through upsertChat of server/db/queries   *)
(***************************************************************************)
\* part_002:63, 203  content.slice(0, 50) + "..." of the last message
TitleOfV2(msgs) == Slice(Last(msgs).content, TitleCutV2) \o Dots

\* queries upsertChat({ userId, chatId, title, messages }): the chat row is
\* created or its title updated, the chat's message rows are deleted and
\* the given list is inserted at positions 0..n-1
upsertChatV2(cs, tbl, userId, chatId, title, msgs, used) ==
    [ chats |-> upsertChat(cs, ChatRow(chatId, userId, title)),
      messages |-> InsertRows(DeleteMessages(tbl, chatId), Rows(msgs, chatId, used)) ]

\* part_002:52  if (!messages.length)
NoMessages(msgs) == Len(msgs) = 0

\* part_002:69-74  the chat exists and belongs to the session user
OwnsChat(cs, cid, userId) == \E c \in cs : c.id = cid /\ c.userId = userId

\* part_002:38-89  POST, up to the return of the streamed response
POSTV2(r) ==
    /\ pc[r] = "idle"
    /\ \E s \in Callers, msgs \in IncomingChoices, cid \in ChatIdChoices :
        /\ session' = [session EXCEPT ![r] = s]
        /\ body' = [body EXCEPT ![r] = [messages |-> msgs, chatId |-> cid]]
        /\ IF Unauthorized(s)
           THEN /\ status' = [status EXCEPT ![r] = 401]
                /\ pc' = [pc EXCEPT ![r] = "rejected"]
                /\ UNCHANGED << chats, messagesTable, nanoCount, chat_id,
                                isNewChat, dbWrites >>
           ELSE IF NoMessages(msgs)
           THEN /\ status' = [status EXCEPT ![r] = 400]
                /\ pc' = [pc EXCEPT ![r] = "rejected"]
                /\ UNCHANGED << chats, messagesTable, nanoCount, chat_id,
                                isNewChat, dbWrites >>
           ELSE IF CreatesChat(cid)
           THEN LET newChatId == nanoid(nanoCount + 1)
                    db == upsertChatV2(chats, messagesTable, s, newChatId,
                                       TitleOfV2(msgs), msgs, nanoCount + 1)
                IN  /\ chats' = db.chats
                    /\ messagesTable' = db.messages
                    /\ nanoCount' = nanoCount + 1 + MissingIds(msgs, Len(msgs))
                    /\ chat_id' = [chat_id EXCEPT ![r] = newChatId]
                    /\ isNewChat' = [isNewChat EXCEPT ![r] = TRUE]
                    /\ dbWrites' = [dbWrites EXCEPT ![r] = @ + 1]
                    /\ status' = [status EXCEPT ![r] = 200]
                    /\ pc' = [pc EXCEPT ![r] = "execute"]
           ELSE IF ~OwnsChat(chats, cid, s)
           THEN /\ status' = [status EXCEPT ![r] = 404]
                /\ pc' = [pc EXCEPT ![r] = "rejected"]
                /\ UNCHANGED << chats, messagesTable, nanoCount, chat_id,
                                isNewChat, dbWrites >>
           ELSE /\ status' = [status EXCEPT ![r] = 200]
                /\ pc' = [pc EXCEPT ![r] = "execute"]
                /\ chat_id' = [chat_id EXCEPT ![r] = cid]
                /\ UNCHANGED << chats, messagesTable, nanoCount, isNewChat, dbWrites >>
    /\ overlapped' = overlapped \cup Overlap(pc', chat_id')
    /\ UNCHANGED << dataStream, turnVars, persisted, cacheVars, toolVars >>

ScenariosV2 ==
    { Scenario(w, sf, mf) : w \in 0..MaxToolsV2, sf \in BOOLEAN, mf \in {FALSE} }
      \cup { Scenario(0, FALSE, TRUE) }

\* part_002:90-212  execute: the sideband event, then streamText starts
ExecuteV2(r) ==
    /\ pc[r] = "execute"
    /\ dataStream' = [dataStream EXCEPT ![r] =
          IF ~Truthy(body[r].chatId)
          THEN <<Event("NEW_CHAT_CREATED", chat_id[r])>> ELSE <<>>]
    /\ pc' = [pc EXCEPT ![r] = "stream"]
    /\ \E sc \in ScenariosV2 : scenario' = [scenario EXCEPT ![r] = sc]
    /\ overlapped' = overlapped \cup Overlap(pc', chat_id)
    /\ UNCHANGED << chats, messagesTable, nanoCount, reqVars, stepCount,
                    responseMessages, toolFailed, dbWrites, persisted,
                    cacheVars, toolVars >>

ToolCallChoices ==
    { [toolName |-> "searchWeb", urls |-> <<>>] }
      \cup { [toolName |-> "scrapePages", urls |-> u] : u \in UrlLists }

\* the model is called: it asks for one of the two tools or answers
ModelStepV2(r) ==
    /\ pc[r] = "stream"
    /\ ~(scenario[r].modelFails /\ stepCount[r] = 0)
    /\ stepCount[r] < maxSteps
    /\ stepCount' = [stepCount EXCEPT ![r] = @ + 1]
    /\ LET id == r \o "s" \o ToString(stepCount[r] + 1)
       IN  IF stepCount[r] < scenario[r].wants
           THEN /\ \E call \in ToolCallChoices :
                      pendingCall' = [pendingCall EXCEPT ![r] = call]
                /\ responseMessages' = [responseMessages EXCEPT ![r] =
                       Append(@, ResponseMsg(id, "assistant", "tool-call", r))]
                /\ dataStream' = [dataStream EXCEPT ![r] = Append(@, Event("tool-call", ""))]
                /\ pc' = [pc EXCEPT ![r] = "tool"]
           ELSE /\ responseMessages' = [responseMessages EXCEPT ![r] =
                       Append(@, ResponseMsg(id, "assistant", "text", r))]
                /\ dataStream' = [dataStream EXCEPT ![r] = Append(@, Event("text", ""))]
                /\ pc' = [pc EXCEPT ![r] = "onFinish"]
                /\ UNCHANGED pendingCall
    /\ overlapped' = overlapped \cup Overlap(pc', chat_id)
    /\ UNCHANGED << chats, messagesTable, nanoCount, reqVars, scenario,
                    toolFailed, dbWrites, persisted, cacheVars, lastCrawl, toolResult >>

\* part_002:133-149  the searchWeb tool call of the current step
SearchWebV2(r) ==
    /\ pc[r] = "tool"
    /\ pendingCall[r].toolName = "searchWeb"
    /\ LET out == searchWebExecute(scenario[r].searchFails)
       IN  /\ toolFailed' = [toolFailed EXCEPT ![r] = @ \/ scenario[r].searchFails]
           /\ IF out.threw
              THEN /\ dataStream' = [dataStream EXCEPT ![r] = Append(@, Event("error", ""))]
                   /\ UNCHANGED responseMessages
              ELSE /\ dataStream' = [dataStream EXCEPT ![r] = Append(@, Event("tool-result", ""))]
                   /\ responseMessages' = [responseMessages EXCEPT ![r] =
                          Append(@, ResponseMsg("", "tool", "tool-result", r))]
           /\ pc' = [pc EXCEPT ![r] =
                        IF ContinuesAfterTool(stepCount[r], out.threw)
                        THEN "stream" ELSE "onFinish"]
    /\ overlapped' = overlapped \cup Overlap(pc', chat_id)
    /\ UNCHANGED << chats, messagesTable, nanoCount, reqVars, scenario,
                    stepCount, dbWrites, persisted, cacheVars, toolVars >>

\* part_002:150-185  the scrapePages tool call of the current step; when
\* the cache client raises, the error leaves execute as in searchWeb
ScrapePages(r) ==
    /\ pc[r] = "tool"
    /\ pendingCall[r].toolName = "scrapePages"
    /\ toolFailed' = [toolFailed EXCEPT ![r] = @ \/ scenario[r].searchFails]
    /\ LET urls == pendingCall[r].urls
       IN  IF scenario[r].searchFails
           THEN /\ dataStream' = [dataStream EXCEPT ![r] = Append(@, Event("error", ""))]
                /\ UNCHANGED << responseMessages, cacheVars, lastCrawl, toolResult >>
           ELSE \E ok \in [1..Len(urls) -> BOOLEAN] :
                  LET got == cachedScrapePages(cache, urls, ok)
                  IN  /\ cache' = got.cache
                      /\ fetchCount' = [fetchCount EXCEPT ![urls] =
                                           IF got.fetched THEN @ + 1 ELSE @]
                      /\ lastCrawl' = [lastCrawl EXCEPT ![r] =
                            [urls |-> urls, value |-> got.value, fetched |-> got.fetched]]
                      /\ toolResult' = [toolResult EXCEPT ![r] = scrapePagesExecute(got.value)]
                      /\ dataStream' = [dataStream EXCEPT ![r] =
                                           Append(@, Event("tool-result", ""))]
                      /\ responseMessages' = [responseMessages EXCEPT ![r] =
                            Append(@, ResponseMsg("", "tool", "tool-result", r))]
                      /\ UNCHANGED evictions
    /\ pc' = [pc EXCEPT ![r] =
                 IF ContinuesAfterTool(stepCount[r], scenario[r].searchFails)
                 THEN "stream" ELSE "onFinish"]
    /\ overlapped' = overlapped \cup Overlap(pc', chat_id)
    /\ UNCHANGED << chats, messagesTable, nanoCount, reqVars, scenario,
                    stepCount, dbWrites, persisted, pendingCall >>

\* part_002:187-209  onFinish: the merged list is saved through upsertChat
OnFinishV2(r) ==
    /\ pc[r] = "onFinish"
    /\ LET db == upsertChatV2(chats, messagesTable, session[r], chat_id[r],
                              TitleOfV2(body[r].messages), updatedMessages(r), nanoCount)
       IN  /\ chats' = db.chats
           /\ messagesTable' = db.messages
    /\ nanoCount' = nanoCount + MissingIds(updatedMessages(r), Len(updatedMessages(r)))
    /\ dbWrites' = [dbWrites EXCEPT ![r] = @ + 1]
    /\ persisted' = [persisted EXCEPT ![r] = @ + 1]
    /\ pc' = [pc EXCEPT ![r] = "done"]
    /\ overlapped' = overlapped \cup Overlap(pc', chat_id)
    /\ UNCHANGED << reqVars, dataStream, turnVars, cacheVars, toolVars >>

\* the cache service drops an entry (expiry or eviction, its own policy)
Evict(k) ==
    /\ cache[k] # NoValue
    /\ cache' = [cache EXCEPT ![k] = NoValue]
    /\ evictions' = [evictions EXCEPT ![k] = @ + 1]
    /\ UNCHANGED << chats, messagesTable, nanoCount, pc, reqVars, dataStream,
                    turnVars, dbWrites, persisted, overlapped, fetchCount, toolVars >>

NextV2 ==
    \/ POSTV2("r1")
    \/ ExecuteV2("r1")
    \/ ModelStepV2("r1")
    \/ ModelError("r1")
    \/ SearchWebV2("r1")
    \/ ScrapePages("r1")
    \/ OnFinishV2("r1")
    \/ \E k \in UrlLists : Evict(k)

SpecV2 == Init /\ [][NextV2]_vars

(***************************************************************************)
(* Properties of the day-1 handler                                         *)
(***************************************************************************)
Range(f) == { f[i] : i \in DOMAIN f }

IsPrefix(a, b) == Len(a) <= Len(b) /\ a = SubSeq(b, 1, Len(a))

Answered(r) == pc[r] # "idle"
Authenticated(r) == Answered(r) /\ session[r] # NoSession

\* the request names a chat explicitly
CarriesChatId(r) == Truthy(body[r].chatId)

\* execute has run: everything the handler writes first is on the stream
Executed(r) == pc[r] \in {"stream", "tool", "onFinish", "insert", "done", "failed"}

NewChatEvents(r) ==
    { i \in 1..Len(dataStream[r]) : dataStream[r][i].type = "NEW_CHAT_CREATED" }

ModelContent(r) ==
    { i \in 1..Len(dataStream[r]) :
        dataStream[r][i].type \in {"text", "tool-call", "tool-result"} }

\* C1: an authenticated request without chatId and with messages creates a
\* chat row of the session user under a fresh identifier with a title cut
\* to 40 characters, and its stream carries exactly one NEW_CHAT_CREATED
\* event, with that identifier, ahead of all model content; a request that
\* carries a chatId never has a NEW_CHAT_CREATED event on its stream.
C1_NewChatAnnounced ==
    \A r \in Reqs :
        /\ (Authenticated(r) /\ ~CarriesChatId(r) /\ body[r].messages # <<>>) =>
              /\ chat_id[r] \notin { c.id : c \in InitChats } \cup ChatIdChoices
              /\ \A o \in Reqs \ {r} : chat_id[o] # chat_id[r]
              /\ \E c \in chats :
                    /\ c.id = chat_id[r]
                    /\ c.userId = session[r]
                    /\ Len(c.title) <= TitleCut
                    /\ \/ IsPrefix(c.title, body[r].messages[1].content)
                       \/ body[r].messages[1].content = <<>> /\ c.title = NewChatTitle
              /\ \A c, d \in chats : c.id = d.id => c = d
              /\ Executed(r) =>
                    /\ NewChatEvents(r) = {1}
                    /\ dataStream[r][1].chatId = chat_id[r]
                    /\ \A i \in ModelContent(r) : i > 1
        /\ (Authenticated(r) /\ CarriesChatId(r)) => NewChatEvents(r) = {}

\* a finished new-chat turn whose first message is longer than the cut and
\* whose stream carried model content after the announcement
C1_Witness ==
    \E r \in Reqs :
        /\ pc[r] = "done" /\ ~CarriesChatId(r)
        /\ body[r].messages # <<>> /\ Len(body[r].messages[1].content) > TitleCut
        /\ ModelContent(r) # {}
        /\ \E c \in chats : c.id = chat_id[r] /\ Len(c.title) = TitleCut

\* the named chat is missing or belongs to somebody else
ForeignChat(r) ==
    /\ Authenticated(r) /\ CarriesChatId(r)
    /\ ~\E c \in chats : c.id = body[r].chatId /\ c.userId = session[r]

\* the request has been served to its end
Finished(r) == pc[r] \in {"rejected", "done", "failed"}

\* C2: a request (with messages) whose chatId names a chat that does not
\* exist or belongs to another user is answered 404, starts no model stream
\* and writes nothing: the chat's stored messages are what they were.
C2_ForeignChatRejected ==
    \A r \in Reqs :
        (ForeignChat(r) /\ body[r].messages # <<>> /\ Finished(r)) =>
            /\ status[r] = 404
            /\ stepCount[r] = 0
            /\ dbWrites[r] = 0
            /\ ChatMessages(messagesTable, body[r].chatId)
                 = ChatMessages(InitMessages, body[r].chatId)

\* the row a merged message is stored as, but for a generated identifier
SameMessage(row, m, i, cid) ==
    /\ row.chatId = cid
    /\ row.order = i - 1
    /\ row.role = m.role
    /\ row.parts = m.parts
    /\ Truthy(m.id) => row.id = m.id

\* the chat reads back as exactly this list, at positions 0..n-1
ReadsBackAs(tbl, cid, msgs) ==
    LET got == ChatMessages(tbl, cid)
    IN  /\ Len(got) = Len(msgs)
        /\ \A i \in 1..Len(msgs) : SameMessage(got[i], msgs[i], i, cid)

\* C3: when the persistence of a turn completes and no other turn ran on
\* the same chat meanwhile, the chat reads back, in ascending position, as
\* exactly the merged list at positions 0..n-1; nothing else survives.
C3_ReadBackIsMergedList ==
    [][ \A r \in Reqs :
          (pc[r] = "insert" /\ pc'[r] = "done" /\ r \notin overlapped') =>
              ReadsBackAs(messagesTable', chat_id[r], updatedMessages(r)) ]_vars

\* a completed, undisturbed turn on the caller's chat c1, which had an
\* earlier transcript, after a tool call and a final answer
C3_Witness ==
    \E r \in Reqs :
        /\ pc[r] = "done" /\ r \notin overlapped /\ chat_id[r] = "c1"
        /\ stepCount[r] = 2 /\ ~toolFailed[r]
        /\ getChat(chats, messagesTable, "c1", session[r]) # <<>>
        /\ Len(getChat(chats, messagesTable, "c1", session[r])[1].messages)
             = Len(body[r].messages) + 1

\* C6: a request without a session is answered 401 and does nothing else:
\* no write to the store, no stream event, no model or tool call, whatever
\* its body; while only such requests arrived the store is as it was.
C6_UnauthenticatedNoEffect ==
    /\ \A r \in Reqs :
          (Answered(r) /\ session[r] = NoSession) =>
              /\ status[r] = 401
              /\ pc[r] = "rejected"
              /\ dbWrites[r] = 0
              /\ dataStream[r] = <<>>
              /\ stepCount[r] = 0
              /\ responseMessages[r] = <<>>
              /\ persisted[r] = 0
    /\ (\A r \in Reqs : session[r] = NoSession) =>
          /\ chats = InitChats
          /\ messagesTable = InitMessages
          /\ nanoCount = 0

\* both requests were rejected, one of them with messages and a chatId
C6_Witness ==
    /\ \A r \in Reqs : pc[r] = "rejected"
    /\ \E r \in Reqs : body[r].messages # <<>> /\ body[r].chatId = "c1"

\* C7: an authenticated request with an empty message list is answered 400,
\* creates no chat row, writes no messages and starts no model stream.
C7_EmptyMessagesRejected ==
    \A r \in Reqs :
        (Authenticated(r) /\ body[r].messages = <<>> /\ Finished(r)) =>
            /\ status[r] = 400
            /\ dbWrites[r] = 0
            /\ stepCount[r] = 0
            /\ \A c \in chats : c.id # chat_id[r] \/ c \in InitChats

ErrorEvents(r) ==
    { i \in 1..Len(dataStream[r]) : dataStream[r][i].type = "error" }

ToolCalls(r) ==
    { i \in 1..Len(responseMessages[r]) : responseMessages[r][i].kind = "tool-call" }

ToolResults(r) ==
    { i \in 1..Len(responseMessages[r]) : responseMessages[r][i].kind = "tool-result" }

\* C8: when the provider behind a tool call raises an error, the tool call
\* still hands a result to the model and no error event reaches the stream.
C8_ToolFailureIsData ==
    \A r \in Reqs :
        toolFailed[r] =>
            /\ ErrorEvents(r) = {}
            /\ Cardinality(ToolResults(r)) = Cardinality(ToolCalls(r))

\* the parts a turn produced itself, as they stand in its merged list
ProducedBy(r) ==
    { p \in UNION { Range(m.parts) : m \in Range(updatedMessages(r)) } : p.by = r }

StoredParts(cid) ==
    UNION { Range(row.parts) : row \in Range(ChatMessages(messagesTable, cid)) }

\* something the turn produced is not in the stored transcript
Lost(r) == ProducedBy(r) \ StoredParts(chat_id[r]) # {}

DuplicatePositions(cid) ==
    LET rows == ChatMessages(messagesTable, cid)
    IN  \E i, j \in 1..Len(rows) : i # j /\ rows[i].order = rows[j].order

\* two turns ran at the same time on one chat and both completed
RacedToCompletion(r, o) ==
    /\ r # o /\ chat_id[r] = chat_id[o]
    /\ pc[r] = "done" /\ pc[o] = "done"
    /\ r \in overlapped /\ o \in overlapped

\* C9: nothing coordinates two turns on one chat: once both completed, the
\* stored transcript lacks what one of them produced or repeats positions;
\* it never is the merged list of one turn extended by the other.
C9_ConcurrentTurnsLoseMessages ==
    \A r, o \in Reqs :
        RacedToCompletion(r, o) =>
            \/ Lost(r)
            \/ Lost(o)
            \/ DuplicatePositions(chat_id[r])

\* both turns ran on the caller's chat c1 without any error, and the answer
\* of one of them is gone although no position is repeated
C9_Witness ==
    \E r, o \in Reqs :
        /\ RacedToCompletion(r, o) /\ chat_id[r] = "c1"
        /\ ~toolFailed[r] /\ ~toolFailed[o]
        /\ ErrorEvents(r) = {} /\ ErrorEvents(o) = {}
        /\ Lost(r) /\ ~Lost(o)
        /\ ~DuplicatePositions("c1")

(***************************************************************************)
(* Termination of the loop.  Every step of a turn that has a response is   *)
(* eventually taken: the model, the tools and the store answer.            *)
(***************************************************************************)
Turn(r) ==
    \/ Execute(r)
    \/ ModelStep(r)
    \/ ModelError(r)
    \/ SearchWeb(r)
    \/ OnFinishDelete(r)
    \/ OnFinishInsert(r)

\* one request on its own: its turn does not wait for any other request
NextTurn ==
    \/ POST("r1")
    \/ Execute("r1")
    \/ ModelStep("r1")
    \/ ModelError("r1")
    \/ SearchWeb("r1")
    \/ OnFinishDelete("r1")
    \/ OnFinishInsert("r1")

FairTurn == Init /\ [][NextTurn]_vars /\ WF_vars(Turn("r1"))

InLoop(r) == pc[r] \in {"stream", "tool"}
LoopEnded(r) == pc[r] \in {"onFinish", "insert", "done"}

FinalAnswers(r) ==
    { i \in 1..Len(responseMessages[r]) : responseMessages[r][i].kind = "text" }

LoopBounded ==
    \A r \in Reqs :
        /\ stepCount[r] <= maxSteps
        /\ Cardinality(ToolCalls(r)) + Cardinality(FinalAnswers(r)) = 
              IF pc[r] = "failed" /\ stepCount[r] > 0 THEN 0 ELSE stepCount[r]
        /\ InLoop(r) => FinalAnswers(r) = {}
        /\ pc[r] = "stream" => stepCount[r] < maxSteps
        /\ FinalAnswers(r) \subseteq {Len(responseMessages[r])}
        /\ LoopEnded(r) =>
              \/ FinalAnswers(r) # {}
              \/ stepCount[r] = maxSteps
              \/ toolFailed[r]
        /\ persisted[r] = (IF pc[r] = "done" THEN 1 ELSE 0)

BeforeCompletion(r) == pc[r] \in {"idle", "execute", "stream", "tool"}

\* this step is taken by request r and leaves the rows of its chat alone
KeepsChatMessages(r) ==
    ChatMessages(messagesTable', chat_id'[r]) = ChatMessages(messagesTable, chat_id'[r])

\* no step a request takes before its stream completes deletes or inserts
\* a message row of its chat
NoWriteBeforeCompletion ==
    [][ \A r \in Reqs :
          (BeforeCompletion(r) /\ pc'[r] # pc[r]) => KeepsChatMessages(r) ]_vars

\* no step of a turn that has an error on its stream deletes or inserts a
\* message row of its chat: the stored messages stay what they were
FailedTurnKeepsMessages ==
    [][ \A r \in Reqs :
          (pc'[r] # pc[r] /\ ErrorEvents(r)' # {}) => KeepsChatMessages(r) ]_vars

\* a chat created by the request has no message row before the persistence
\* of its first turn
NewChatEmptyUntilCompletion ==
    \A r \in Reqs :
        (isNewChat[r] /\ pc[r] \in {"execute", "stream", "tool", "onFinish",
                                    "insert", "failed"}) =>
            ChatMessages(messagesTable, chat_id[r]) = <<>>

\* C11: message rows of a chat are written only at the end of a successful
\* turn: no step of a request before its stream completes deletes or
\* inserts a row of its chat, a turn that fails with an error during
\* streaming leaves the chat's stored messages exactly as they were, and a
\* newly created chat has no stored messages until its first turn completes.
C11_MessagesOnlyAfterSuccess ==
    /\ NoWriteBeforeCompletion
    /\ FailedTurnKeepsMessages
    /\ []NewChatEmptyUntilCompletion

(***************************************************************************)
(* Properties of scrapePages in the later handler                          *)
(***************************************************************************)
\* C4: a scrapePages call whose URL list has a cache entry returns that
\* entry and does not call the bulk page fetch: per URL list the fetch is
\* called at most once more than the cache service dropped its entry, so
\* the count stays at one while the entry is kept.
C4_SecondScrapeIsCached ==
    /\ \A k \in UrlLists : fetchCount[k] <= 1 + evictions[k]
    /\ \A k \in UrlLists : cache[k] # NoValue => fetchCount[k] >= 1
    /\ \A r \in Reqs :
          (lastCrawl[r] # NoValue /\ cache[lastCrawl[r].urls] # NoValue) =>
              lastCrawl[r].value = cache[lastCrawl[r].urls]

\* a later call with the same URL list was answered from the cache: the
\* turn has two tool results, the list was fetched once and never evicted
C4_Witness ==
    \E r \in Reqs :
        /\ lastCrawl[r] # NoValue
        /\ ~lastCrawl[r].fetched
        /\ fetchCount[lastCrawl[r].urls] = 1
        /\ evictions[lastCrawl[r].urls] = 0
        /\ Cardinality(ToolResults(r)) >= 2

FailedEntries(t) == { i \in 1..Len(t.results) : ~t.results[i].success }

\* C5: scrapePages returns one entry per requested URL, in order, with the
\* URL's outcome as success flag, content only on success and error only on
\* failure; with a failing URL it returns success false and failedUrls is
\* exactly the URLs of the failed entries; with none it returns success
\* true and no failedUrls.
C5_ScrapeResultShape ==
    \A r \in Reqs :
        toolResult[r] # NoValue =>
            LET t == toolResult[r]
                urls == lastCrawl[r].urls
                crawl == lastCrawl[r].value
            IN  /\ Len(t.results) = Len(urls)
                /\ \A i \in 1..Len(urls) :
                      /\ t.results[i].url = urls[i]
                      /\ t.results[i].success = crawl.results[i].result.success
                      /\ t.results[i].success =>
                            /\ t.results[i].content = crawl.results[i].result.data
                            /\ t.results[i].content # Undefined
                            /\ t.results[i].error = Undefined
                      /\ ~t.results[i].success =>
                            /\ t.results[i].content = Undefined
                            /\ t.results[i].error # Undefined
                /\ IF FailedEntries(t) = {}
                   THEN t.success /\ "failedUrls" \notin DOMAIN t
                   ELSE /\ ~t.success
                        /\ "failedUrls" \in DOMAIN t
                        /\ Len(t.failedUrls) = Cardinality(FailedEntries(t))
                        /\ Range(t.failedUrls) = { urls[i] : i \in FailedEntries(t) }

\* one URL failed and one succeeded
C5_Witness ==
    \E r \in Reqs :
        /\ toolResult[r] # NoValue
        /\ ~toolResult[r].success
        /\ Len(toolResult[r].results) = 2
        /\ Cardinality(FailedEntries(toolResult[r])) = 1
        /\ toolResult[r].failedUrls = <<"b">>

====
